---- MODULE Spec2Model ----
(***************************************************************************)
(* A model of the OpenWebUI SSH connection manager                         *)
(* (src/Open WebUI Tools/example_tool.py, class Tools).                    *)
(*                                                                         *)
(* One Tools instance is shared by the threads of `threads`.  Each thread  *)
(* runs one call at a time; `calls[t]` is the frame of the call thread t   *)
(* is in: the method's arguments, its local variables, and its position.   *)
(* `clients` is the heap of the paramiko.SSHClient objects in use,         *)
(* each with the state of its transport.  The SSH library, the resolver    *)
(* and the HTTP client are the environment: every call into them ends in   *)
(* one of the outcomes the library documents, chosen by the environment.   *)
(***************************************************************************)
EXTENDS Integers, Sequences, FiniteSets, TLC

\* ------------------------------------------------------------------ bounds
\* SSHConnection.timeout is drawn from 1..MaxTimeout (seconds).
MaxTimeout == 2
\* A remote command runs for 0..MaxDuration seconds.
MaxDuration == 3
\* Messages that precede the last one in a pipe body: 0..MaxEarlier.
MaxEarlier == 1

\* ------------------------------------------------------- program constants
\* SSHConnection.port: Field(default=22)
DefaultPort == 22
\* SSHConnection.timeout: Field(default=10)
DefaultTimeout == 10

\* ------------------------------------------------------------ Python values
\* Python's None, and the marker of a dict key that is not there.
None == "<None>"

\* bool(x) of an Optional[str]: None and "" are falsy.
Truthy(x) == x # None /\ x # ""

\* A str whose characters matter is a sequence of one-character strings.
UpperCase == <<"A","B","C","D","E","F","G","H","I","J","K","L","M",
               "N","O","P","Q","R","S","T","U","V","W","X","Y","Z">>
LowerCase == <<"a","b","c","d","e","f","g","h","i","j","k","l","m",
               "n","o","p","q","r","s","t","u","v","w","x","y","z">>
Whitespace == {" ", "\n", "\t"}

LowerChar(c) ==
    IF \E i \in 1..26 : UpperCase[i] = c
    THEN LowerCase[CHOOSE i \in 1..26 : UpperCase[i] = c]
    ELSE c

\* str.lower()
lower(s) == [i \in 1..Len(s) |-> LowerChar(s[i])]

\* sub in s
Contains(sub, s) ==
    \E i \in 0..(Len(s) - Len(sub)) : SubSeq(s, i + 1, i + Len(sub)) = sub

\* s.find(sep) + 1, for a sep that occurs in s
FirstIndex(sep, s) ==
    CHOOSE k \in 1..(Len(s) - Len(sep) + 1) :
        /\ SubSeq(s, k, k + Len(sep) - 1) = sep
        /\ \A j \in 1..(k - 1) : SubSeq(s, j, j + Len(sep) - 1) # sep

\* s.split(sep): the pieces between the occurrences of sep, left to right.
RECURSIVE split(_, _)
split(s, sep) ==
    IF ~Contains(sep, s)
    THEN <<s>>
    ELSE LET i == FirstIndex(sep, s)
         IN  <<SubSeq(s, 1, i - 1)>> \o split(SubSeq(s, i + Len(sep), Len(s)), sep)

RECURSIVE lstrip(_)
lstrip(s) == IF s # <<>> /\ Head(s) \in Whitespace THEN lstrip(Tail(s)) ELSE s

RECURSIVE rstrip(_)
rstrip(s) ==
    IF s # <<>> /\ s[Len(s)] \in Whitespace
    THEN rstrip(SubSeq(s, 1, Len(s) - 1))
    ELSE s

\* str.strip()
strip(s) == lstrip(rstrip(s))

\* The literals of pipe.
StrIp == <<"i","p">>
StrSsh == <<"s","s","h">>
StrTest == <<"t","e","s","t">>


\* ------------------------------------------------------- string literals
\* "ls"
LS == <<"l","s">>
\* "What's my server IP?"
MY_IP == <<"W","h","a","t","'","s"," ","m","y"," ","s","e","r","v","e","r"," ","I","P","?">>
\* "ssh ls"
SSH_LS == <<"s","s","h"," ","l","s">>
\* "SSH ls"
SSH_UPPER_LS == <<"S","S","H"," ","l","s">>
\* "ssh test"
SSH_TEST == <<"s","s","h"," ","t","e","s","t">>
\* "ssh ip a"
SSH_IP_A == <<"s","s","h"," ","i","p"," ","a">>
\* "hello"
HELLO == <<"h","e","l","l","o">>
\* "Test SSH"
TEST_SSH_UPPER == <<"T","e","s","t"," ","S","S","H">>
\* "hello\n"
HELLO_NL == <<"h","e","l","l","o","\n">>

\* ------------------------------------------------------------------ inputs
\* class SSHConnection(BaseModel): pydantic checks the types and nothing else.
Hosts == {"", "localhost"}
Ports == {0, DefaultPort, 65536}
Passwords == {None, "testpass"}
PrivateKeys == {None, "", "/home/user/.ssh/id_rsa"}
Timeouts == 1..MaxTimeout

SSHConnection(h, p, u, pw, k, to) ==
    [host |-> h, port |-> p, username |-> u, password |-> pw,
     private_key |-> k, timeout |-> to]

SSHConnections ==
    {SSHConnection(h, p, "testuser", pw, k, to) :
        h \in Hosts, p \in Ports, pw \in Passwords, k \in PrivateKeys, to \in Timeouts}

NoConnection == SSHConnection("", 0, "", None, None, 0)

Commands == {LS}

\* os.environ as pipe reads it: SSH_HOST, SSH_USER, SSH_PASS, each set or not.
Environs ==
    [SSH_HOST : {None, "gateway"}, SSH_USER : {None}, SSH_PASS : {None, "secret"}]

\* os.getenv(name, default)
getenv(env, name, default) == IF env[name] = None THEN default ELSE env[name]

\* A chat message: a dict with a role and, usually, a content.
Message(r, c) == [role |-> r, has_content |-> TRUE, content |-> c]
NoContentMessage(r) == [role |-> r, has_content |-> FALSE, content |-> <<>>]

\* last_message.get("content", "")
MessageContent(m) == IF m.has_content THEN m.content ELSE <<>>

LastContents ==
    {MY_IP, SSH_LS, SSH_UPPER_LS, SSH_TEST, SSH_IP_A, HELLO, <<>>, TEST_SSH_UPPER}

LastMessages == {Message("user", c) : c \in LastContents} \cup {NoContentMessage("user")}

EarlierMessages == {Message("user", HELLO), Message("user", MY_IP)}

RECURSIVE SeqsUpTo(_, _)
SeqsUpTo(S, n) ==
    IF n = 0 THEN {<<>>}
    ELSE LET shorter == SeqsUpTo(S, n - 1)
         IN  shorter \cup {Append(q, x) : q \in shorter, x \in S}

\* A pipe body: a dict that may lack "messages".
Body(has, ms) == [has_messages |-> has, messages |-> ms]

Bodies ==
    {Body(FALSE, <<>>), Body(TRUE, <<>>)}
    \cup {Body(TRUE, Append(e, m)) : e \in SeqsUpTo(EarlierMessages, MaxEarlier),
                                     m \in LastMessages}

\* What the remote command writes to a stream, before decode() and strip().
RawOutputs == {<<>>, HELLO_NL}

\* ------------------------------------------------------------ result dicts
\* A result dict: `keys` are the keys it has; a key it lacks holds its default.
Result(ks, st, msg, priv, pub, out, err) ==
    [keys |-> ks, status |-> st, message |-> msg, private_ip |-> priv,
     public_ip |-> pub, output |-> out, error |-> err]

NoResult == Result({}, "", "", "", "", <<>>, <<>>)

\* {"status": "error", "message": str(e)}
ErrorResult(e) == Result({"status", "message"}, "error", e, "", "", <<>>, <<>>)

\* What pipe returns: the body, or {"error": ...}.
NoReturn == [kind |-> "", error |-> "", body |-> Body(FALSE, <<>>)]
ReturnBody(b) == [kind |-> "body", error |-> "", body |-> b]
ReturnError(e) == [kind |-> "error", error |-> e, body |-> Body(FALSE, <<>>)]

\* ------------------------------------------------------------------- state
\* The threads a specification runs; thread 1 alone is one event loop, whose
\* coroutines never suspend inside a call.
AllThreads == {1, 2}

VARIABLES
    threads,              \* the threads calling into the Tools instance
    active_connections,   \* Tools.active_connections
    clients,              \* the heap: the SSHClient objects in use
    calls                 \* per thread, the frame of its current call

vars == <<threads, active_connections, clients, calls>>

\* A call refers to one client at most, so the heap needs a place per thread.
ClientIds == 1..Cardinality(AllThreads)

\* A place of the heap with no object in it.
FreeClient == [creator |-> 0, transport |-> "none", users |-> {}]

\* ------------------------------------------------- what a run draws from
\* One thread draws every argument and outcome the bounds allow. Several
\* threads draw the connection of test_tool and its key-file twin, and one
\* outcome of each kind.
Threaded == Cardinality(threads) > 1

ThreadedConnections ==
    {SSHConnection("localhost", DefaultPort, "testuser", "testpass", None, 1),
     SSHConnection("localhost", DefaultPort, "testuser", None,
                   "/home/user/.ssh/id_rsa", 1)}

ThreadedBodies ==
    {Body(TRUE, <<>>)}
    \cup {Body(TRUE, <<Message("user", c)>>) :
            c \in {MY_IP, SSH_LS, SSH_UPPER_LS, SSH_TEST, HELLO}}

ConnectionArgs == IF Threaded THEN ThreadedConnections ELSE SSHConnections

BodyArgs == IF Threaded THEN ThreadedBodies ELSE Bodies

EnvironArgs ==
    IF Threaded
    THEN {[SSH_HOST |-> None, SSH_USER |-> None, SSH_PASS |-> "secret"]}
    ELSE Environs

DurationArgs == IF Threaded THEN {0, 1} ELSE 0..MaxDuration

\* The outcomes of one kind a run draws from: all of S, or one of them.
Outcomes(S) == IF Threaded THEN {CHOOSE x \in S : TRUE} ELSE S

OutputArgs == IF Threaded THEN {HELLO_NL} ELSE RawOutputs

\* A frame. op is the method the caller invoked, fn the method whose body ran
\* last (pipe awaits the other three), pc the position.
IdleCall ==
    [op |-> "idle", fn |-> "idle", pc |-> "idle",
     connection |-> NoConnection, command |-> <<>>, reachable |-> FALSE,
     client |-> 0, key |-> None, connected |-> FALSE,
     sent |-> [called |-> FALSE, pkey |-> None, password |-> None, timeout |-> 0],
     elapsed |-> 0, duration |-> 0, exc |-> "", raised |-> "",
     private_ip |-> "", public_ip |-> "", output |-> <<>>, error |-> <<>>,
     result |-> NoResult, given |-> Body(FALSE, <<>>), body |-> Body(FALSE, <<>>),
     ret |-> NoReturn]

\* Tools.__init__
Init ==
    /\ threads = {1}
    /\ active_connections = {}
    /\ clients = [c \in ClientIds |-> FreeClient]
    /\ calls = [t \in AllThreads |-> IdleCall]

\* Thread t is between two calls.
Idle(t) == t \in threads /\ calls[t].pc = "idle"

Enter(t, method, entry) ==
    [IdleCall EXCEPT !.op = method, !.fn = method, !.pc = entry]

\* ------------------------------------------------------------- get_ip_info
CallGetIpInfo(t) ==
    /\ Idle(t)
    /\ calls' = [calls EXCEPT ![t] = Enter(t, "get_ip_info", "gethostbyname")]
    /\ UNCHANGED <<threads, active_connections, clients>>

\* return: to the caller, or to pipe's await, which goes on to append.
ReturnTo(f) == IF f.op = "pipe" THEN "append" ELSE "done"

\* raise: control leaves the try body for the method's except clause (elapsed
\* is the time the pending library call has taken; it ends with the call).
Raise(f, e) == [f EXCEPT !.pc = "except", !.exc = e, !.elapsed = 0]

\* private_ip = socket.gethostbyname(socket.gethostname())
GetHostByName(t) ==
    /\ calls[t].pc = "gethostbyname"
    /\ \/ calls' = [calls EXCEPT ![t].private_ip = "10.0.0.5", ![t].pc = "requests_get"]
       \/ calls' = [calls EXCEPT ![t] = Raise(@, "gaierror")]
    /\ UNCHANGED <<threads, active_connections, clients>>

\* public_ip = requests.get(..., timeout=5).json().get("ip", "Unknown"),
\* then the success dict is returned.
RequestsGet(t) ==
    /\ calls[t].pc = "requests_get"
    /\ \/ \E ip \in Outcomes({"203.0.113.7", "Unknown"}) :
            calls' = [calls EXCEPT
                ![t].public_ip = ip,
                ![t].result = Result({"status", "private_ip", "public_ip"}, "success",
                                     "", calls[t].private_ip, ip, <<>>, <<>>),
                ![t].pc = ReturnTo(calls[t])]
       \/ \E e \in Outcomes({"ConnectionError", "Timeout", "JSONDecodeError"}) :
            calls' = [calls EXCEPT ![t] = Raise(@, e)]
    /\ UNCHANGED <<threads, active_connections, clients>>


\* ------------------------------------- test_ssh_connection, execute_ssh_command
\* The two methods share their first twenty lines; fn tells them apart.
InSsh(t) == calls[t].fn \in {"test_ssh_connection", "execute_ssh_command"}

CallTest(t) ==
    /\ Idle(t)
    /\ \E connection \in ConnectionArgs, reachable \in BOOLEAN :
            calls' = [calls EXCEPT ![t] =
                [Enter(t, "test_ssh_connection", "SSHClient") EXCEPT
                    !.connection = connection, !.reachable = reachable]]
    /\ UNCHANGED <<threads, active_connections, clients>>

CallExec(t) ==
    /\ Idle(t)
    /\ \E connection \in ConnectionArgs, command \in Commands, reachable \in BOOLEAN :
            calls' = [calls EXCEPT ![t] =
                [Enter(t, "execute_ssh_command", "SSHClient") EXCEPT
                    !.connection = connection, !.command = command,
                    !.reachable = reachable]]
    /\ UNCHANGED <<threads, active_connections, clients>>

\* A client kept and handed out again, as a pool keyed by host would.
PooledClient(heap) == 1

\* paramiko.SSHClient(): a new object, at the first free place of the heap.
AllocClient(heap) ==
    CHOOSE c \in ClientIds :
        /\ heap[c].creator = 0
        /\ \A d \in ClientIds : heap[d].creator = 0 => c <= d

\* client = paramiko.SSHClient(); client.set_missing_host_key_policy(...)
NewClient(t) ==
    /\ InSsh(t)
    /\ calls[t].pc = "SSHClient"
    /\ LET c == AllocClient(clients)
       IN  /\ clients' =
                IF clients[c].creator = 0
                THEN [clients EXCEPT ![c] = [creator |-> t, transport |-> "none",
                                             users |-> {t}]]
                ELSE [clients EXCEPT ![c].users = @ \cup {t}]
           /\ calls' = [calls EXCEPT ![t].client = c, ![t].pc = "if_private_key"]
    /\ UNCHANGED <<threads, active_connections>>

\* The password taking precedence when both are given.
UseKeyUnlessPassword(connection) ==
    Truthy(connection.private_key) /\ ~Truthy(connection.password)

\* if connection.private_key:
UseKey(connection) == Truthy(connection.private_key)

\* key = paramiko.RSAKey.from_private_key_file(connection.private_key)
LoadKey(t) ==
    /\ InSsh(t)
    /\ calls[t].pc = "if_private_key"
    /\ UseKey(calls[t].connection)
    /\ \/ calls' = [calls EXCEPT ![t].key = "RSAKey", ![t].pc = "connect_pkey"]
       \/ \E e \in Outcomes({"FileNotFoundError", "SSHException"}) :
            calls' = [calls EXCEPT ![t] = Raise(@, e)]
    /\ UNCHANGED <<threads, active_connections, clients>>

\* client.connect(hostname, port, username, pkey=key, timeout): the call is made
\* and the library starts to dial.
ConnectWithKey(t) ==
    /\ InSsh(t)
    /\ calls[t].pc = "connect_pkey"
    /\ calls' = [calls EXCEPT
            ![t].sent = [called |-> TRUE, pkey |-> calls[t].key, password |-> None,
                         timeout |-> calls[t].connection.timeout],
            ![t].elapsed = 0,
            ![t].pc = "dial"]
    /\ UNCHANGED <<threads, active_connections, clients>>

\* else: client.connect(hostname, port, username, password, timeout)
ConnectWithPassword(t) ==
    /\ InSsh(t)
    /\ calls[t].pc = "if_private_key"
    /\ ~UseKey(calls[t].connection)
    /\ calls' = [calls EXCEPT
            ![t].sent = [called |-> TRUE, pkey |-> None,
                         password |-> calls[t].connection.password,
                         timeout |-> calls[t].connection.timeout],
            ![t].elapsed = 0,
            ![t].pc = "dial"]
    /\ UNCHANGED <<threads, active_connections, clients>>

\* A TCP connection needs a host to resolve and a port a socket can name.
Dialable(connection) == connection.host # "" /\ connection.port \in 1..65535

\* connect() called without its timeout: the dial waits for as long as it takes.
NeverTimedOut(elapsed, timeout) == FALSE

\* connect(timeout=connection.timeout): the dial gives up at the deadline.
TimedOut(elapsed, timeout) == elapsed >= timeout

\* The dial fails at once: the name does not resolve, the port is refused.
DialFails(t) ==
    /\ calls[t].pc = "dial"
    /\ \E e \in Outcomes({"gaierror", "NoValidConnectionsError"}) :
            calls' = [calls EXCEPT ![t] = Raise(@, e)]
    /\ UNCHANGED <<threads, active_connections, clients>>

\* A second passes with the dial unanswered.
DialTick(t) ==
    /\ calls[t].pc = "dial"
    /\ calls[t].elapsed < calls[t].sent.timeout
    /\ calls' = [calls EXCEPT ![t].elapsed = @ + 1]
    /\ UNCHANGED <<threads, active_connections, clients>>

\* The deadline passes: socket.timeout.
DialTimeout(t) ==
    /\ calls[t].pc = "dial"
    /\ TimedOut(calls[t].elapsed, calls[t].sent.timeout)
    /\ calls' = [calls EXCEPT ![t] = Raise(@, "timeout")]
    /\ UNCHANGED <<threads, active_connections, clients>>

\* The host answers: the library creates the Transport and starts it.
DialAccept(t) ==
    /\ calls[t].pc = "dial"
    /\ calls[t].reachable
    /\ Dialable(calls[t].connection)
    /\ ~TimedOut(calls[t].elapsed, calls[t].sent.timeout)
    /\ clients' = [clients EXCEPT ![calls[t].client].transport = "open"]
    /\ calls' = [calls EXCEPT ![t].elapsed = 0, ![t].pc = "auth"]
    /\ UNCHANGED <<threads, active_connections>>

\* The server accepts the credentials: connect() returns.
AuthAccept(t) ==
    /\ calls[t].pc = "auth"
    /\ calls' = [calls EXCEPT
            ![t].connected = TRUE,
            ![t].pc = IF calls[t].fn = "test_ssh_connection" THEN "close"
                      ELSE "exec_command"]
    /\ UNCHANGED <<threads, active_connections, clients>>

\* The server rejects them: connect() raises and leaves its Transport as it is.
AuthReject(t) ==
    /\ calls[t].pc = "auth"
    /\ calls' = [calls EXCEPT ![t] = Raise(@, "AuthenticationException")]
    /\ UNCHANGED <<threads, active_connections, clients>>

\* stdin, stdout, stderr = client.exec_command(command): no timeout is passed,
\* so the channel has none.
ExecCommand(t) ==
    /\ calls[t].fn = "execute_ssh_command"
    /\ calls[t].pc = "exec_command"
    /\ \/ \E d \in DurationArgs :
            calls' = [calls EXCEPT ![t].duration = d, ![t].elapsed = 0,
                                   ![t].pc = "stdout_read"]
       \/ calls' = [calls EXCEPT ![t] = Raise(@, "SSHException")]
    /\ UNCHANGED <<threads, active_connections, clients>>

\* stdout.read() blocks while the remote command runs.
StdoutWait(t) ==
    /\ calls[t].pc = "stdout_read"
    /\ calls[t].elapsed < calls[t].duration
    /\ calls' = [calls EXCEPT ![t].elapsed = @ + 1]
    /\ UNCHANGED <<threads, active_connections, clients>>

\* output = stdout.read().decode().strip(), at end of stream
StdoutRead(t) ==
    /\ calls[t].pc = "stdout_read"
    /\ calls[t].elapsed >= calls[t].duration
    /\ \/ \E raw \in OutputArgs :
            calls' = [calls EXCEPT ![t].output = strip(raw), ![t].elapsed = 0,
                                   ![t].pc = "stderr_read"]
       \/ calls' = [calls EXCEPT ![t] = Raise(@, "UnicodeDecodeError")]
    /\ UNCHANGED <<threads, active_connections, clients>>

\* error = stderr.read().decode().strip()
StderrRead(t) ==
    /\ calls[t].pc = "stderr_read"
    /\ \/ \E raw \in OutputArgs :
            calls' = [calls EXCEPT ![t].error = strip(raw), ![t].pc = "close"]
       \/ calls' = [calls EXCEPT ![t] = Raise(@, "UnicodeDecodeError")]
    /\ UNCHANGED <<threads, active_connections, clients>>

\* client.close(); return {"status": "success", "message": ...}
TestClose(t) ==
    /\ calls[t].fn = "test_ssh_connection"
    /\ calls[t].pc = "close"
    /\ clients' = [clients EXCEPT ![calls[t].client].transport = "closed"]
    /\ calls' = [calls EXCEPT
            ![t].result = Result({"status", "message"}, "success",
                                 "SSH connection successful", "", "", <<>>, <<>>),
            ![t].pc = ReturnTo(calls[t])]
    /\ UNCHANGED <<threads, active_connections>>

\* client.close(); return {"status": "success", "output": ..., "error": ...}
ExecClose(t) ==
    /\ calls[t].fn = "execute_ssh_command"
    /\ calls[t].pc = "close"
    /\ clients' = [clients EXCEPT ![calls[t].client].transport = "closed"]
    /\ calls' = [calls EXCEPT
            ![t].result = Result({"status", "output", "error"}, "success", "", "", "",
                                 calls[t].output, calls[t].error),
            ![t].pc = ReturnTo(calls[t])]
    /\ UNCHANGED <<threads, active_connections>>

\* ------------------------------------------------------------------ except
\* Every failure the libraries report is a subclass of Exception.
Exceptions ==
    {"gaierror", "ConnectionError", "Timeout", "JSONDecodeError", "FileNotFoundError",
     "SSHException", "NoValidConnectionsError", "timeout", "AuthenticationException",
     "UnicodeDecodeError", "IndexError"}

\* except paramiko.SSHException as e:
CatchesSshOnly(e) == e \in {"SSHException", "AuthenticationException"}

\* except Exception as e:
Catches(e) == e \in Exceptions

\* except Exception as e: return {"status": "error", "message": str(e)}.
\* An exception the clause does not catch leaves the method: into pipe's try
\* when pipe awaits the method, to the caller otherwise.
ExceptClause(t) ==
    /\ calls[t].pc = "except"
    /\ calls' = [calls EXCEPT ![t] =
            IF Catches(calls[t].exc)
            THEN [@ EXCEPT !.result = ErrorResult(calls[t].exc),
                           !.pc = ReturnTo(calls[t])]
            ELSE IF calls[t].op = "pipe"
                 THEN [@ EXCEPT !.fn = "pipe", !.pc = "pipe_except"]
                 ELSE [@ EXCEPT !.raised = calls[t].exc, !.pc = "done"]]
    /\ UNCHANGED <<threads, active_connections, clients>>

GetIpInfoExcept(t) == calls[t].fn = "get_ip_info" /\ ExceptClause(t)

TestExcept(t) == calls[t].fn = "test_ssh_connection" /\ ExceptClause(t)

ExecExcept(t) == calls[t].fn = "execute_ssh_command" /\ ExceptClause(t)

\* The caller takes what the call returned. The frame is gone and nothing
\* refers to its client any more: in whatever state the transport was left,
\* the program cannot reach it again.
Finish(t) ==
    /\ calls[t].pc = "done"
    /\ calls' = [calls EXCEPT ![t] = IdleCall]
    /\ clients' = IF calls[t].client = 0 THEN clients
                  ELSE [clients EXCEPT ![calls[t].client] = FreeClient]
    /\ UNCHANGED <<threads, active_connections>>


\* -------------------------------------------------------------------- pipe
\* json.dumps of a result dict, as its tokens in the dict's insertion order.
Quoted(chars) == <<"\"">> \o chars \o <<"\"">>

JsonField(r, k, v) == IF k \in r.keys THEN <<k, ":">> \o v \o <<",">> ELSE <<>>

\* json.dumps({tag: result})
dumps(tag, r) ==
    <<"{", tag, ":", "{">>
    \o JsonField(r, "status", <<r.status>>)
    \o JsonField(r, "message", <<r.message>>)
    \o JsonField(r, "private_ip", <<r.private_ip>>)
    \o JsonField(r, "public_ip", <<r.public_ip>>)
    \o JsonField(r, "output", Quoted(r.output))
    \o JsonField(r, "error", Quoted(r.error))
    \o <<"}", "}">>

\* messages = body.get("messages", [])
Messages(body) == IF body.has_messages THEN body.messages ELSE <<>>

\* content = messages[-1].get("content", "")
LastContent(body) == MessageContent(Messages(body)[Len(Messages(body))])

\* "ip" in content.lower()
IsIpRequest(content) == Contains(StrIp, lower(content))

\* "ssh" in content.lower()
IsSshRequest(content) == Contains(StrSsh, lower(content))

\* "test" in content.lower()
IsTestRequest(content) == Contains(StrTest, lower(content))

\* SSHConnection(host=os.getenv("SSH_HOST", "localhost"),
\*               username=os.getenv("SSH_USER", "user"), password=os.getenv("SSH_PASS"))
EnvConnection(env) ==
    SSHConnection(getenv(env, "SSH_HOST", "localhost"), DefaultPort,
                  getenv(env, "SSH_USER", "user"), env["SSH_PASS"], None, DefaultTimeout)

CallPipe(t) ==
    /\ Idle(t)
    /\ \E body \in BodyArgs :
            calls' = [calls EXCEPT ![t] =
                [Enter(t, "pipe", "pipe") EXCEPT !.given = body, !.body = body]]
    /\ UNCHANGED <<threads, active_connections, clients>>

\* if not messages: return {"error": "No messages provided"}
PipeNoMessages(t) ==
    /\ calls[t].pc = "pipe"
    /\ Messages(calls[t].body) = <<>>
    /\ calls' = [calls EXCEPT ![t].ret = ReturnError("No messages provided"),
                              ![t].pc = "done"]
    /\ UNCHANGED <<threads, active_connections, clients>>

\* if "ip" in content.lower(): ip_info = await self.get_ip_info()
PipeIpRequest(t) ==
    /\ calls[t].pc = "pipe"
    /\ Messages(calls[t].body) # <<>>
    /\ IsIpRequest(LastContent(calls[t].body))
    /\ calls' = [calls EXCEPT ![t].fn = "get_ip_info", ![t].pc = "gethostbyname"]
    /\ UNCHANGED <<threads, active_connections, clients>>

\* elif "ssh" in content.lower(): ... if "test" in content.lower():
\*     result = await self.test_ssh_connection(connection)
PipeSshTest(t) ==
    /\ calls[t].pc = "pipe"
    /\ Messages(calls[t].body) # <<>>
    /\ ~IsIpRequest(LastContent(calls[t].body))
    /\ IsSshRequest(LastContent(calls[t].body))
    /\ IsTestRequest(LastContent(calls[t].body))
    /\ \E env \in EnvironArgs, reachable \in BOOLEAN :
            calls' = [calls EXCEPT ![t].connection = EnvConnection(env),
                                   ![t].reachable = reachable,
                                   ![t].fn = "test_ssh_connection",
                                   ![t].pc = "SSHClient"]
    /\ UNCHANGED <<threads, active_connections, clients>>

\* else: command = content.split("ssh")[1].strip()
\*       result = await self.execute_ssh_command(connection, command)
\* The content is split as written, not lowered: with no "ssh" in it the list
\* has one element and [1] raises IndexError.
PipeSshCommand(t) ==
    /\ calls[t].pc = "pipe"
    /\ Messages(calls[t].body) # <<>>
    /\ ~IsIpRequest(LastContent(calls[t].body))
    /\ IsSshRequest(LastContent(calls[t].body))
    /\ ~IsTestRequest(LastContent(calls[t].body))
    /\ \E env \in EnvironArgs, reachable \in BOOLEAN :
         LET parts == split(LastContent(calls[t].body), StrSsh)
         IN  calls' = [calls EXCEPT ![t] =
                IF Len(parts) < 2
                THEN [@ EXCEPT !.connection = EnvConnection(env),
                               !.exc = "IndexError", !.pc = "pipe_except"]
                ELSE [@ EXCEPT !.connection = EnvConnection(env),
                               !.reachable = reachable,
                               !.command = strip(parts[2]),
                               !.fn = "execute_ssh_command",
                               !.pc = "SSHClient"]]
    /\ UNCHANGED <<threads, active_connections, clients>>

\* Neither branch: return body
PipePassThrough(t) ==
    /\ calls[t].pc = "pipe"
    /\ Messages(calls[t].body) # <<>>
    /\ ~IsIpRequest(LastContent(calls[t].body))
    /\ ~IsSshRequest(LastContent(calls[t].body))
    /\ calls' = [calls EXCEPT ![t].ret = ReturnBody(calls[t].body), ![t].pc = "done"]
    /\ UNCHANGED <<threads, active_connections, clients>>

\* body["messages"].append({"role": "assistant", "content": json.dumps({tag: result})})
\* return body
AppendAndReturn(f, tag) ==
    LET b == [f.body EXCEPT !.messages =
                Append(@, Message("assistant", dumps(tag, f.result)))]
    IN  [f EXCEPT !.body = b, !.ret = ReturnBody(b), !.pc = "done"]

PipeAppendIpInfo(t) ==
    /\ calls[t].pc = "append"
    /\ calls[t].fn = "get_ip_info"
    /\ calls' = [calls EXCEPT ![t] = AppendAndReturn(@, "ip_info")]
    /\ UNCHANGED <<threads, active_connections, clients>>

PipeAppendSshResult(t) ==
    /\ calls[t].pc = "append"
    /\ InSsh(t)
    /\ calls' = [calls EXCEPT ![t] = AppendAndReturn(@, "ssh_result")]
    /\ UNCHANGED <<threads, active_connections, clients>>

\* except Exception as e: return {"error": str(e)}
PipeExcept(t) ==
    /\ calls[t].pc = "pipe_except"
    /\ calls' = [calls EXCEPT ![t].ret = ReturnError(calls[t].exc), ![t].pc = "done"]
    /\ UNCHANGED <<threads, active_connections, clients>>

\* ----------------------------------------------------------- specifications
\* What the program does on its own once a call is under way: its statements,
\* the passing of time, the deadline.
Progress(t) ==
    \/ GetHostByName(t)
    \/ RequestsGet(t)
    \/ NewClient(t)
    \/ LoadKey(t)
    \/ ConnectWithKey(t)
    \/ ConnectWithPassword(t)
    \/ DialTick(t)
    \/ DialTimeout(t)
    \/ AuthAccept(t)
    \/ AuthReject(t)
    \/ ExecCommand(t)
    \/ StdoutWait(t)
    \/ StdoutRead(t)
    \/ StderrRead(t)
    \/ TestClose(t)
    \/ ExecClose(t)
    \/ GetIpInfoExcept(t)
    \/ TestExcept(t)
    \/ ExecExcept(t)
    \/ PipeNoMessages(t)
    \/ PipeIpRequest(t)
    \/ PipeSshTest(t)
    \/ PipeSshCommand(t)
    \/ PipePassThrough(t)
    \/ PipeAppendIpInfo(t)
    \/ PipeAppendSshResult(t)
    \/ PipeExcept(t)

\* Every step: those of Progress, and what the caller and the network may or
\* may not do (a call, a refusal, an answer, taking the result).
Next ==
    \E t \in AllThreads :
        \/ CallGetIpInfo(t)
        \/ CallTest(t)
        \/ CallExec(t)
        \/ CallPipe(t)
        \/ DialFails(t)
        \/ DialAccept(t)
        \/ Finish(t)
        \/ GetHostByName(t)
        \/ RequestsGet(t)
        \/ NewClient(t)
        \/ LoadKey(t)
        \/ ConnectWithKey(t)
        \/ ConnectWithPassword(t)
        \/ DialTick(t)
        \/ DialTimeout(t)
        \/ AuthAccept(t)
        \/ AuthReject(t)
        \/ ExecCommand(t)
        \/ StdoutWait(t)
        \/ StdoutRead(t)
        \/ StderrRead(t)
        \/ TestClose(t)
        \/ ExecClose(t)
        \/ GetIpInfoExcept(t)
        \/ TestExcept(t)
        \/ ExecExcept(t)
            \/ PipeNoMessages(t)
        \/ PipeIpRequest(t)
        \/ PipeSshTest(t)
        \/ PipeSshCommand(t)
        \/ PipePassThrough(t)
        \/ PipeAppendIpInfo(t)
        \/ PipeAppendSshResult(t)
        \/ PipeExcept(t)

\* One event loop: a call runs to its return before the next starts.
Spec == Init /\ [][Next]_vars

\* A running call keeps running and its clock keeps ticking.
FairSpec == Spec /\ \A t \in AllThreads : WF_vars(Progress(t))

\* The same instance called from two threads, interleaved at every step.
ThreadedInit ==
    /\ threads = AllThreads
    /\ active_connections = {}
    /\ clients = [c \in ClientIds |-> FreeClient]
    /\ calls = [t \in AllThreads |-> IdleCall]

ThreadedSpec == ThreadedInit /\ [][Next]_vars


\* ------------------------------------------------------------------ claims
\* Method m has run in thread t's frame and has returned or raised.
Returned(t, m) == calls[t].fn = m /\ calls[t].pc \in {"append", "done"}

\* The transport of the client thread t's call created.
Transport(t) == clients[calls[t].client].transport

\* The spec's validation: a host, a port in 1..65535, a password or a key.
ValidSpec(connection) ==
    /\ connection.host # ""
    /\ connection.port \in 1..65535
    /\ (connection.password # None \/ connection.private_key # None)

\* C1: when execute_ssh_command returns after its connect succeeded, the
\* transport of its client is closed, whatever happened after the connect.
C1_ExecuteClosesTransport ==
    \A t \in AllThreads :
        (Returned(t, "execute_ssh_command") /\ calls[t].connected)
            => Transport(t) # "open"

\* C2: when test_ssh_connection returns, no transport its client opened, fully
\* or partly, is still open.
C2_TestLeavesNoSession ==
    \A t \in AllThreads :
        (Returned(t, "test_ssh_connection") /\ calls[t].client # 0)
            => Transport(t) # "open"

\* C3: a remote command that runs longer than the timeout does not keep
\* execute_ssh_command blocked past the timeout, and the call returns
\* status=error tagged as a timeout with the transport closed.
C3_ExecuteTimesOut ==
    \A t \in AllThreads :
        (calls[t].fn = "execute_ssh_command"
         /\ calls[t].duration > calls[t].connection.timeout)
            => /\ calls[t].pc = "stdout_read"
                    => calls[t].elapsed <= calls[t].connection.timeout
               /\ calls[t].pc \in {"append", "done"}
                    => /\ calls[t].result.status = "error"
                       /\ calls[t].result.message = "timeout"
                       /\ Transport(t) = "closed"

\* C4: get_ip_info, test_ssh_connection and execute_ssh_command never raise to
\* their caller: a failure of a library call comes back as a dict with
\* status "error" and the failure as its message, and a run with no failure
\* as a dict with status "success".
C4_NoThrowPastBoundary ==
    \A t \in AllThreads :
        /\ calls[t].raised = ""
        /\ calls[t].pc = "pipe_except" => calls[t].exc = "IndexError"
        /\ (calls[t].pc \in {"append", "done"}
            /\ calls[t].fn \in {"get_ip_info", "test_ssh_connection",
                                "execute_ssh_command"})
            => /\ "status" \in calls[t].result.keys
               /\ IF calls[t].exc = ""
                  THEN calls[t].result.status = "success"
                  ELSE /\ calls[t].result.status = "error"
                       /\ "message" \in calls[t].result.keys
                       /\ calls[t].result.message = calls[t].exc

\* A library call failed after the transport was open, and the method returned
\* the error dict.
C4_Witness ==
    \E t \in AllThreads :
        /\ calls[t].op = "execute_ssh_command"
        /\ calls[t].pc = "done"
        /\ calls[t].exc = "UnicodeDecodeError"
        /\ calls[t].result.status = "error"

\* C5: when the local address resolved and the public lookup failed,
\* get_ip_info still returns the private address, with status=error and a
\* message.
C5_PartialSuccess ==
    \A t \in AllThreads :
        (Returned(t, "get_ip_info") /\ calls[t].private_ip # "" /\ calls[t].exc # "")
            => /\ "private_ip" \in calls[t].result.keys
               /\ calls[t].result.private_ip = calls[t].private_ip
               /\ calls[t].result.status = "error"
               /\ calls[t].result.message # ""

\* C6: the private key alone chooses the authentication: with private_key set
\* the key is loaded and connect gets the key and no password, whether or not
\* a password is set; connect gets the password only with private_key not
\* set; a key that fails to load ends the call in an error dict with no
\* connect at all.
C6_KeyTakesPrecedence ==
    \A t \in AllThreads :
        InSsh(t) =>
            /\ calls[t].sent.called =>
                IF Truthy(calls[t].connection.private_key)
                THEN /\ calls[t].key # None
                     /\ calls[t].sent.pkey = calls[t].key
                     /\ calls[t].sent.password = None
                ELSE /\ calls[t].sent.pkey = None
                     /\ calls[t].sent.password = calls[t].connection.password
            /\ (Truthy(calls[t].connection.private_key) /\ calls[t].key = None
                /\ calls[t].pc \in {"append", "done"})
                => /\ ~calls[t].sent.called
                   /\ calls[t].result.status = "error"

\* A connection with both a key and a password went through connect with the key.
C6_Witness ==
    \E t \in AllThreads :
        /\ InSsh(t)
        /\ calls[t].pc = "done"
        /\ Truthy(calls[t].connection.private_key)
        /\ Truthy(calls[t].connection.password)
        /\ calls[t].sent.called
        /\ calls[t].sent.pkey = "RSAKey"

\* C7: with an empty host, a port outside 1..65535, or neither password nor
\* key, test_ssh_connection and execute_ssh_command make no connect and return
\* a validation failure.
C7_ValidatesBeforeDial ==
    \A t \in AllThreads :
        (InSsh(t) /\ ~ValidSpec(calls[t].connection))
            => /\ ~calls[t].sent.called
               /\ calls[t].pc \in {"append", "done"}
                    => /\ calls[t].result.status = "error"
                       /\ calls[t].result.message = "ValidationError"

\* C8: test_ssh_connection on a valid spec whose host is unreachable returns,
\* with status=error, and once connect was called the message is the reason
\* the connection failed.
C8_UnreachableTestReturnsError ==
    \A t \in AllThreads :
        (/\ calls[t].fn = "test_ssh_connection"
         /\ calls[t].pc = "SSHClient"
         /\ ValidSpec(calls[t].connection)
         /\ ~calls[t].reachable)
        ~> (/\ Returned(t, "test_ssh_connection")
            /\ calls[t].result.status = "error"
            /\ calls[t].sent.called
                => calls[t].result.message
                        \in {"gaierror", "NoValidConnectionsError", "timeout"})

\* The dial to an unreachable host ran into its deadline and the test returned.
C8_Witness ==
    \E t \in AllThreads :
        /\ calls[t].op = "test_ssh_connection"
        /\ calls[t].pc = "done"
        /\ ValidSpec(calls[t].connection)
        /\ ~calls[t].reachable
        /\ calls[t].result.status = "error"
        /\ calls[t].result.message = "timeout"

\* C9: the registry stays empty, every call works on the client it created,
\* and no client is used by two calls.
C9_NoSharedClient ==
    /\ active_connections = {}
    /\ \A c \in ClientIds : Cardinality(clients[c].users) <= 1
    /\ \A t \in AllThreads :
        calls[t].client # 0 => clients[calls[t].client].creator = t
    /\ \A t1, t2 \in AllThreads :
        (t1 # t2 /\ calls[t1].client # 0) => calls[t1].client # calls[t2].client

\* Two command executions are reading their output at the same time.
C9_Witness ==
    /\ \A t \in AllThreads :
        /\ calls[t].fn = "execute_ssh_command"
        /\ calls[t].pc = "stdout_read"
        /\ Transport(t) = "open"
    /\ calls[1].op = "pipe"
    /\ calls[2].op = "execute_ssh_command"

\* C10: pipe looks at the last message only and appends at most one message:
\* no messages, the error dict and no connect; "ip" in the content, one
\* assistant message with the IP info and no connect; else "ssh" in it, one
\* assistant message with the result of the test or of the command; else the
\* body as given. The messages given are never changed.
C10_PipeDispatch ==
    \A t \in AllThreads :
        (calls[t].op = "pipe" /\ calls[t].pc = "done") =>
            LET given == Messages(calls[t].given)
                content == LastContent(calls[t].given)
                ret == calls[t].ret
                appended(tag) ==
                    /\ ret.kind = "body"
                    /\ ret.body.messages =
                        Append(given, Message("assistant", dumps(tag, calls[t].result)))
            IN  IF given = <<>>
                THEN ret = ReturnError("No messages provided") /\ ~calls[t].sent.called
                ELSE IF IsIpRequest(content)
                THEN /\ appended("ip_info")
                     /\ calls[t].fn = "get_ip_info"
                     /\ ~calls[t].sent.called
                ELSE IF IsSshRequest(content)
                THEN /\ appended("ssh_result")
                     /\ calls[t].fn = IF IsTestRequest(content)
                                      THEN "test_ssh_connection"
                                      ELSE "execute_ssh_command"
                ELSE ret = ReturnBody(calls[t].given)

====
